---- MODULE Spec2Model ----
(***************************************************************************)
(* A model of kniffel (src/src/main.rs): the dice tally and the category   *)
(* values derived from it, the player's score card, and the game loop of   *)
(* main.                                                                   *)
(***************************************************************************)
EXTENDS Integers, Sequences, FiniteSets, TLC

VARIABLES
    dice,                 \* main: dice, the five die faces of the current turn
    counts,               \* main: counts, the DiceCounts of the hand shown last
    values,               \* main: values, the PotentialValues of the hand shown last
    valued_combinations,  \* main: valued_combinations, the options offered
    i,                    \* main: i, the number of hands shown in this turn
    filled,               \* PlayerState.filled
    call,                 \* the argument of the last record_value call
    result,               \* what the last record_value call returned
    turns,                \* the number of completed turns (record_value calls of main)
    kept,                 \* whether the last re-roll left every die outside the selection as it was
    rerolls,              \* the number of re-rolls made in this turn
    pc                    \* the position in main, or the phase of the driver

vars ==
    <<dice, counts, values, valued_combinations, i, filled, call, result, turns,
      kept, rerolls, pc>>

(***************************************************************************)
(* Numbers                                                                 *)
(***************************************************************************)
U16 == 65536

NumDice == 5

\* u16 arithmetic of a release build (wrapping)
AddU16(a, b) == (a + b) % U16
MulU16(a, b) == (a * b) % U16
SubU16(a, b) == (a - b) % U16

(***************************************************************************)
(* DieRoll, DIE_ROLLS and the straights                                    *)
(***************************************************************************)
DieRoll == 1..6

DIE_ROLLS == <<1, 2, 3, 4, 5, 6>>

SMALL_STRAIGHTS == << <<1, 2, 3, 4>>, <<2, 3, 4, 5>>, <<3, 4, 5, 6>> >>

LARGE_STRAIGHTS == << <<1, 2, 3, 4, 5>>, <<2, 3, 4, 5, 6>> >>

DiceRolls == [1..NumDice -> DieRoll]

(***************************************************************************)
(* DiceCounts                                                              *)
(***************************************************************************)
ZeroCounts == [ones |-> 0, twos |-> 0, threes |-> 0, fours |-> 0, fives |-> 0, sixes |-> 0]

\* one iteration of the loop of DiceCounts::new
CountDie(c, die) ==
    CASE die = 1 -> [c EXCEPT !.ones = AddU16(@, 1)]
      [] die = 2 -> [c EXCEPT !.twos = AddU16(@, 1)]
      [] die = 3 -> [c EXCEPT !.threes = AddU16(@, 1)]
      [] die = 4 -> [c EXCEPT !.fours = AddU16(@, 1)]
      [] die = 5 -> [c EXCEPT !.fives = AddU16(@, 1)]
      [] die = 6 -> [c EXCEPT !.sixes = AddU16(@, 1)]

RECURSIVE CountFrom(_, _, _)
CountFrom(c, d, k) ==
    IF k > Len(d) THEN c ELSE CountFrom(CountDie(c, d[k]), d, k + 1)

DiceCounts_new(d) == CountFrom(ZeroCounts, d, 1)

\* impl Index<DieRoll> for DiceCounts
CountsIndex(c, die) ==
    CASE die = 1 -> c.ones
      [] die = 2 -> c.twos
      [] die = 3 -> c.threes
      [] die = 4 -> c.fours
      [] die = 5 -> c.fives
      [] die = 6 -> c.sixes

RECURSIVE SumSeqU16(_, _)
SumSeqU16(s, k) ==
    IF k > Len(s) THEN 0 ELSE AddU16(s[k], SumSeqU16(s, k + 1))

sum_squares(c) ==
    SumSeqU16([k \in 1..Len(DIE_ROLLS) |->
                  MulU16(MulU16(CountsIndex(c, DIE_ROLLS[k]), DIE_ROLLS[k]), DIE_ROLLS[k])], 1)

sum(c) ==
    SumSeqU16([k \in 1..Len(DIE_ROLLS) |-> MulU16(CountsIndex(c, DIE_ROLLS[k]), DIE_ROLLS[k])], 1)

has_tuple_exact(c, n) ==
    \E k \in 1..Len(DIE_ROLLS) : CountsIndex(c, DIE_ROLLS[k]) = n

has_tuple(c, n) ==
    \E k \in 1..Len(DIE_ROLLS) : CountsIndex(c, DIE_ROLLS[k]) >= n

has_fullhouse_atleast(c) ==
    LET has_pair == \E k \in 1..Len(DIE_ROLLS) : CountsIndex(c, DIE_ROLLS[k]) >= 2
        has_triple == \E k \in 1..Len(DIE_ROLLS) : CountsIndex(c, DIE_ROLLS[k]) >= 3
    IN  has_pair /\ has_triple

has_fullhouse(c) ==
    LET has_pair == \E k \in 1..Len(DIE_ROLLS) : CountsIndex(c, DIE_ROLLS[k]) = 2
        has_triple == \E k \in 1..Len(DIE_ROLLS) : CountsIndex(c, DIE_ROLLS[k]) = 3
    IN  has_pair /\ has_triple

has_straight_single(c, straights) ==
    \E m \in 1..Len(straights) :
        \A n \in 1..Len(straights[m]) : CountsIndex(c, straights[m][n]) = 1

has_straight(c, straights) ==
    \E m \in 1..Len(straights) :
        \A n \in 1..Len(straights[m]) : CountsIndex(c, straights[m][n]) > 0

has_small_straight(c) == has_straight(c, SMALL_STRAIGHTS)

has_large_straight(c) == has_straight(c, LARGE_STRAIGHTS)

times_die_values(c) ==
    [ones   |-> MulU16(c.ones, 1),
     twos   |-> MulU16(c.twos, 2),
     threes |-> MulU16(c.threes, 3),
     fours  |-> MulU16(c.fours, 4),
     fives  |-> MulU16(c.fives, 5),
     sixes  |-> MulU16(c.sixes, 6)]

(***************************************************************************)
(* Combination                                                             *)
(***************************************************************************)
Upper(die) == [tag |-> "Upper", die |-> die]
Lower(tag) == [tag |-> tag, die |-> 0]

Triple == Lower("Triple")
Quadruple == Lower("Quadruple")
Quintuple == Lower("Quintuple")
SmallStraight == Lower("SmallStraight")
LargeStraight == Lower("LargeStraight")
Chance == Lower("Chance")
FullHouse == Lower("FullHouse")

LOWER_COMBINATIONS ==
    <<Triple, Quadruple, SmallStraight, LargeStraight, FullHouse, Quintuple, Chance>>

Combination ==
    {Upper(d) : d \in DieRoll}
        \cup {Triple, Quadruple, Quintuple, SmallStraight, LargeStraight, Chance, FullHouse}

(***************************************************************************)
(* PotentialValues                                                         *)
(***************************************************************************)
PotentialValues_new(c) ==
    [upper          |-> times_die_values(c),
     triple         |-> IF has_tuple(c, 3) THEN sum(c) ELSE 0,
     quadruple      |-> IF has_tuple(c, 4) THEN sum(c) ELSE 0,
     quintuple      |-> IF has_tuple(c, 5) THEN 50 ELSE 0,
     chance         |-> sum(c),
     small_straight |-> IF has_small_straight(c) THEN 30 ELSE 0,
     large_straight |-> IF has_large_straight(c) THEN 40 ELSE 0,
     full_house     |-> IF has_fullhouse(c) THEN 25 ELSE 0]

\* impl Index<Combination> for PotentialValues
ValuesIndex(v, combination) ==
    CASE combination.tag = "Upper" -> CountsIndex(v.upper, combination.die)
      [] combination.tag = "Triple" -> v.triple
      [] combination.tag = "Quadruple" -> v.quadruple
      [] combination.tag = "Quintuple" -> v.quintuple
      [] combination.tag = "SmallStraight" -> v.small_straight
      [] combination.tag = "LargeStraight" -> v.large_straight
      [] combination.tag = "Chance" -> v.chance
      [] combination.tag = "FullHouse" -> v.full_house

NoCounts == ZeroCounts
NoValues == PotentialValues_new(ZeroCounts)

(***************************************************************************)
(* The evaluation of one hand: every hand of five faces is tallied and     *)
(* valued.                                                                 *)
(***************************************************************************)
NoCall == [combination |-> Chance, value |-> 0]

InitEval ==
    /\ dice \in DiceRolls
    /\ counts = NoCounts
    /\ values = NoValues
    /\ valued_combinations = <<>>
    /\ i = 0
    /\ filled = <<>>
    /\ call = NoCall
    /\ result = "none"
    /\ turns = 0
    /\ kept = TRUE
    /\ rerolls = 0
    /\ pc = "hand"

Tally ==
    /\ pc = "hand"
    /\ counts' = DiceCounts_new(dice)
    /\ pc' = "tallied"
    /\ UNCHANGED <<dice, values, valued_combinations, i, filled, call, result, turns, kept, rerolls>>

Evaluate ==
    /\ pc = "tallied"
    /\ values' = PotentialValues_new(counts)
    /\ pc' = "valued"
    /\ UNCHANGED <<dice, counts, valued_combinations, i, filled, call, result, turns, kept, rerolls>>

NextEval == Tally \/ Evaluate

SpecEval == InitEval /\ [][NextEval]_vars

(***************************************************************************)
(* PlayerState and Score                                                   *)
(***************************************************************************)
ValuedCombination(combination, value) == [combination |-> combination, value |-> value]

has_combination_by_kind(f, combination) ==
    \E k \in 1..Len(f) : f[k].combination.tag = combination.tag

has_combination(f, combination) ==
    \E k \in 1..Len(f) : f[k].combination = combination

record_value_unchecked(f, vc) ==
    [filled |-> Append(f, vc), result |-> "Ok"]

\* the ledger after record_value(vc) and what the call returns
record_value(f, vc) ==
    IF has_combination(f, vc.combination)
    THEN [filled |-> f, result |-> "Err"]
    ELSE [filled |-> Append(f, vc), result |-> "Ok"]

\* the loop of score over filled[k..], started with the sums so far
RECURSIVE ScoreFrom(_, _, _, _)
ScoreFrom(f, k, upper, lower) ==
    IF k > Len(f)
    THEN [upper |-> upper, lower |-> lower]
    ELSE IF f[k].combination.tag = "Upper"
         THEN ScoreFrom(f, k + 1, AddU16(upper, f[k].value), lower)
         ELSE ScoreFrom(f, k + 1, upper, AddU16(lower, f[k].value))

score_bonus_above(f) ==
    LET sums == ScoreFrom(f, 1, 0, 0)
    IN  [upper |-> sums.upper,
         lower |-> sums.lower,
         bonus |-> IF sums.upper > 63 THEN 35 ELSE 0]

score(f) ==
    LET sums == ScoreFrom(f, 1, 0, 0)
    IN  [upper |-> sums.upper,
         lower |-> sums.lower,
         bonus |-> IF sums.upper >= 63 THEN 35 ELSE 0]

total(s) == AddU16(AddU16(s.upper, s.lower), s.bonus)

is_done_upper_only(f) == Len(f) >= Len(DIE_ROLLS)

is_done(f) == Len(f) >= Len(DIE_ROLLS) + Len(LOWER_COMBINATIONS)

(***************************************************************************)
(* The score card on its own: record_value is called over and over, for    *)
(* recorded and for unrecorded categories.                                 *)
(***************************************************************************)
\* the categories in the order main lists them
ALL_COMBINATIONS ==
    [k \in 1..Len(DIE_ROLLS) |-> Upper(DIE_ROLLS[k])] \o LOWER_COMBINATIONS

\* the first MaxFree records are of any category; after them the caller
\* records the open categories in the order of ALL_COMBINATIONS
MaxFree == 2

Unrecorded(f) ==
    LET open(c) == ~(\E k \in 1..Len(f) : f[k].combination = c)
    IN  SelectSeq(ALL_COMBINATIONS, open)

OpenChoices(f) ==
    LET open == Unrecorded(f)
    IN  IF Len(f) < MaxFree
        THEN {open[k] : k \in 1..Len(open)}
        ELSE {open[k] : k \in 1..(IF Len(open) > 0 THEN 1 ELSE 0)}

\* the values the caller records: an upper category with three dice of its
\* face (two or three for the ones), a lower category with its fixed score or
\* the sum of a hand
CardValues(c) ==
    CASE c.tag = "Upper" -> IF c.die = 1 THEN {2, 3} ELSE {3 * c.die}
      [] c.tag = "Quintuple" -> {50}
      [] c.tag = "SmallStraight" -> {30}
      [] c.tag = "LargeStraight" -> {40}
      [] c.tag = "FullHouse" -> {25}
      [] OTHER -> {19}

\* the value tried on a category that is recorded already: the recorded one for
\* Quintuple, another one for the rest
RetryValues == {50}

InitCard ==
    /\ dice = [k \in 1..NumDice |-> 1]
    /\ counts = NoCounts
    /\ values = NoValues
    /\ valued_combinations = <<>>
    /\ i = 0
    /\ filled = <<>>
    /\ call = NoCall
    /\ result = "none"
    /\ turns = 0
    /\ kept = TRUE
    /\ rerolls = 0
    /\ pc = "card"

RecordValue(c, v) ==
    /\ pc = "card"
    /\ call' = ValuedCombination(c, v)
    /\ filled' = record_value(filled, call').filled
    /\ result' = record_value(filled, call').result
    /\ UNCHANGED <<dice, counts, values, valued_combinations, i, turns, kept, rerolls, pc>>

\* a category that is recorded already is tried again
RecordAgain ==
    \E k \in 1..Len(filled) :
        \E v \in RetryValues : RecordValue(filled[k].combination, v)

\* a category that is still open is recorded
RecordNew ==
    \E c \in OpenChoices(filled) :
        \E v \in CardValues(c) : RecordValue(c, v)

NextCard == RecordAgain \/ RecordNew

SpecCard == InitCard /\ [][NextCard]_vars

(***************************************************************************)
(* main: the game loop                                                     *)
(***************************************************************************)
\* fastrand::usize(..6) is drawn from 0..MaxRand-1 during the first MaxVaried
\* turns and is 0 after them
MaxRand == 2

MaxVaried == 1

\* the player records one of the first MaxPick options of the list
MaxPick == 2

RandFaces(t) ==
    IF t < MaxVaried THEN {DIE_ROLLS[r + 1] : r \in 0..(MaxRand - 1)} ELSE {DIE_ROLLS[1]}

\* the place of s[k] after a stable sort of s by the keys key[k]
Rank(key, k) ==
    Cardinality({j \in DOMAIN key : key[j] < key[k]})
        + Cardinality({j \in DOMAIN key : j < k /\ key[j] = key[k]}) + 1

StableSort(s, key) ==
    [r \in 1..Len(s) |-> s[CHOOSE k \in 1..Len(s) : Rank(key, k) = r]]

\* dice.sort()
SortDice(d) == StableSort(d, d)

\* the key of sort_by_key, 100 - vc.value in u16
SortKey(vc) == SubU16(100, vc.value)

Options_unfiltered(v, f) ==
    LET all == [k \in 1..Len(ALL_COMBINATIONS) |->
                   ValuedCombination(ALL_COMBINATIONS[k], ValuesIndex(v, ALL_COMBINATIONS[k]))]
    IN  StableSort(all, [k \in 1..Len(all) |-> SortKey(all[k])])

\* lines 378-393: the options of the hand valued by v, for the card f
Options(v, f) ==
    LET all == [k \in 1..Len(ALL_COMBINATIONS) |->
                   ValuedCombination(ALL_COMBINATIONS[k], ValuesIndex(v, ALL_COMBINATIONS[k]))]
        open(vc) == ~has_combination(f, vc.combination)
        retained == SelectSeq(all, open)
    IN  StableSort(retained, [k \in 1..Len(retained) |-> SortKey(retained[k])])

\* lines 411-413: dice[idx] is drawn anew for every idx of the selection
RerollDice_shifted(d, sel, new) ==
    [k \in DOMAIN d |->
        IF (k % Len(d)) + 1 \in sel THEN new[(k % Len(d)) + 1] ELSE d[k]]

RerollDice(d, sel, new) == [k \in DOMAIN d |-> IF k \in sel THEN new[k] ELSE d[k]]

\* line 394: the hand shown is the last one of the turn
last_hand_late(n) == n > 3

last_hand(n) == n > 2

InitGame ==
    /\ dice = [k \in 1..NumDice |-> 1]
    /\ counts = NoCounts
    /\ values = NoValues
    /\ valued_combinations = <<>>
    /\ i = 0
    /\ filled = <<>>
    /\ call = NoCall
    /\ result = "none"
    /\ turns = 0
    /\ kept = TRUE
    /\ rerolls = 0
    /\ pc = "outer"

\* lines 359-361: a new turn starts with five fresh dice
Roll ==
    /\ pc = "outer"
    /\ dice' \in [1..NumDice -> RandFaces(turns)]
    /\ valued_combinations' = <<>>
    /\ i' = 0
    /\ rerolls' = 0
    /\ kept' = TRUE
    /\ pc' = "inner"
    /\ UNCHANGED <<counts, values, filled, call, result, turns>>

\* lines 363-367: the card is shown and is full
Finish ==
    /\ pc = "inner"
    /\ is_done(filled)
    /\ pc' = "exit"
    /\ UNCHANGED <<dice, counts, values, valued_combinations, i, filled, call, result,
                   turns, kept, rerolls>>

\* lines 363-396: the card is shown, the hand is sorted and valued, the open
\* options are listed
Show ==
    /\ pc = "inner"
    /\ ~is_done(filled)
    /\ i' = i + 1
    /\ dice' = SortDice(dice)
    /\ counts' = DiceCounts_new(dice')
    /\ values' = PotentialValues_new(counts')
    /\ valued_combinations' = Options(values', filled)
    /\ pc' = IF last_hand(i') THEN "choose" ELSE "prompt"
    /\ UNCHANGED <<filled, call, result, turns, kept, rerolls>>

\* lines 403-410: the player selects no die
KeepDice ==
    /\ pc = "prompt"
    /\ pc' = "choose"
    /\ UNCHANGED <<dice, counts, values, valued_combinations, i, filled, call, result,
                   turns, kept, rerolls>>

\* lines 403-413: the player selects some dice and they are rolled again
Reroll ==
    /\ pc = "prompt"
    /\ \E sel \in (SUBSET (1..NumDice)) \ {{}} :
           \E new \in [sel -> RandFaces(turns)] :
               /\ dice' = RerollDice(dice, sel, new)
               /\ kept' = \A k \in (1..NumDice) \ sel : dice'[k] = dice[k]
    /\ rerolls' = rerolls + 1
    /\ pc' = "inner"
    /\ UNCHANGED <<counts, values, valued_combinations, i, filled, call, result, turns>>

\* lines 415-422: the player picks an option and it is recorded
Choose ==
    /\ pc = "choose"
    /\ IF Len(valued_combinations) = 0
       THEN /\ pc' = "panic"
            /\ UNCHANGED <<filled, call, result, turns>>
       ELSE \E pick \in 1..MaxPick :
                /\ pick <= Len(valued_combinations)
                /\ call' = valued_combinations[pick]
                /\ filled' = record_value(filled, call').filled
                /\ result' = record_value(filled, call').result
                /\ turns' = turns + 1
                /\ pc' = IF result' = "Err" THEN "panic" ELSE "outer"
    /\ UNCHANGED <<dice, counts, values, valued_combinations, i, kept, rerolls>>

NextGame == Roll \/ Finish \/ Show \/ KeepDice \/ Reroll \/ Choose

SpecGame == InitGame /\ [][NextGame]_vars

(***************************************************************************)
(* The hands of the evaluation and the game side by side: every hand of    *)
(* five faces is valued, and a game is played.                             *)
(***************************************************************************)
InitNumbers == InitEval \/ InitGame

NextNumbers == NextEval \/ NextGame

SpecNumbers == InitNumbers /\ [][NextNumbers]_vars

(***************************************************************************)
(* The score card, read off the ledger entry by entry.                     *)
(***************************************************************************)
Recorded(f, c) == \E k \in 1..Len(f) : f[k].combination = c

\* values[c], the value of the hand shown last
IndexedValue(c) == ValuesIndex(values, c)

\* the sum of the values recorded for the categories of S
RECURSIVE ValueOver(_, _)
ValueOver(f, S) ==
    IF S = {} THEN 0
    ELSE LET c == CHOOSE x \in S : TRUE
             own == {k \in 1..Len(f) : f[k].combination = c}
             v == IF own = {} THEN 0 ELSE f[CHOOSE k \in own : TRUE].value
         IN  v + ValueOver(f, S \ {c})

UpperCategories == {Upper(d) : d \in DieRoll}

\* C1: whatever record_value calls are made, no category stands in more than
\* one entry of the ledger, so the ledger never holds more than 13 entries.
C1_NoCategoryTwice ==
    /\ \A j, k \in 1..Len(filled) :
           filled[j].combination = filled[k].combination => j = k
    /\ Len(filled) <= 13

\* a call on the full card has failed
C1_Witness ==
    /\ Len(filled) = 13
    /\ result = "Err"
    /\ call.combination = Upper(6)

\* C2: record_value(c, v) returns the error exactly when c is recorded
\* beforehand, whatever v is; the error leaves the ledger as it was, success
\* appends (c, v) after the earlier entries, which stay as they were; the first
\* record on a fresh card succeeds for every category.
C2_RecordStep ==
    LET had == Recorded(filled, call'.combination)
    IN  /\ result' = "Err" <=> had
        /\ result' = "Ok" <=> ~had
        /\ had => filled' = filled
        /\ ~had => /\ Len(filled') = Len(filled) + 1
                   /\ filled'[Len(filled')] = call'
                   /\ \A k \in 1..Len(filled) : filled'[k] = filled[k]
        /\ filled = <<>> => result' = "Ok"

\* C2: every step of the score card is such a record_value step.
C2_RecordValue == [][pc = "card" => C2_RecordStep]_vars

\* a category recorded with one value has been refused with another
C2_Witness ==
    /\ result = "Err"
    /\ call = ValuedCombination(FullHouse, 50)
    /\ Len(filled) = 1
    /\ filled[1] = ValuedCombination(FullHouse, 25)

\* C6: score() gives upper = the sum of the recorded Upper entries, lower =
\* the sum of the other recorded entries, bonus = 35 when upper >= 63 and 0
\* otherwise, and total() = upper + lower + bonus; the sums are those of the
\* set of entries, whatever the order of recording.
C6_Score ==
    LET s == score(filled)
        up == ValueOver(filled, UpperCategories)
        low == ValueOver(filled, Combination \ UpperCategories)
    IN  /\ s.upper = up
        /\ s.lower = low
        /\ s.bonus = (IF up >= 63 THEN 35 ELSE 0)
        /\ up = 62 => s.bonus = 0
        /\ up = 63 => s.bonus = 35
        /\ total(s) = up + low + s.bonus

\* the upper section stands at exactly 63, recorded out of order, and the
\* bonus is granted
C6_Witness ==
    /\ Len(filled) = 13
    /\ filled[1].combination = Chance
    /\ filled[2].combination = Upper(4)
    /\ score(filled).upper = 63
    /\ score(filled).bonus = 35
    /\ total(score(filled)) = 63 + 35 + score(filled).lower

\* C6, below the threshold: the upper section stands at 62 and no bonus is
\* granted
C6_WitnessBelow ==
    /\ score(filled).upper = 62
    /\ score(filled).bonus = 0

\* C7: is_done() is true exactly when the ledger holds 13 entries, which is
\* exactly when every category is recorded; it is false with 12 entries or
\* fewer.
C7_IsDone ==
    /\ is_done(filled) <=> Len(filled) = 13
    /\ Len(filled) = 13 <=> \A c \in Combination : Recorded(filled, c)
    /\ Len(filled) <= 12 => ~is_done(filled)

\* all 13 categories are recorded, not in the listing order, and the card is
\* done
C7_Witness ==
    /\ is_done(filled)
    /\ Len(filled) = 13
    /\ filled[1].combination = Quintuple
    /\ filled[2].combination = Upper(3)

InTurn == pc \in {"prompt", "choose"}

\* C8: in the game loop every completed turn ends with one record_value call,
\* for a category that is not recorded yet and with the value PotentialValues
\* gives the final hand of the turn, so the call never fails and the ledger
\* grows by one entry per turn and by none in between; the options offered are
\* never empty; the loop is left exactly when the ledger holds 13 entries,
\* after 13 completed turns.
C8_Positions ==
    /\ pc # "panic"
    /\ result # "Err"
    /\ turns = Len(filled)
    /\ InTurn => Len(valued_combinations) > 0
    /\ InTurn => Len(filled) < 13
    /\ pc = "exit" => Len(filled) = 13 /\ turns = 13
    /\ Len(filled) = 13 => pc \in {"outer", "inner", "exit"}

C8_TurnStep ==
    /\ pc = "choose" =>
           /\ pc' = "outer"
           /\ result' = "Ok"
           /\ ~Recorded(filled, call'.combination)
           /\ call'.value =
                  ValuesIndex(PotentialValues_new(DiceCounts_new(dice)), call'.combination)
           /\ filled' = Append(filled, call')
           /\ turns' = turns + 1
    /\ pc # "choose" => filled' = filled /\ turns' = turns
    /\ pc = "inner" /\ Len(filled) = 13 => pc' = "exit"
    /\ pc = "inner" /\ Len(filled) < 13 => pc' \in {"prompt", "choose"}

\* C8: the positions of the game loop and its steps are as stated: one
\* successful record per turn, options never empty, exit exactly at 13 entries.
C8_GameLoop == []C8_Positions /\ [][C8_TurnStep]_vars

\* the game is over after 13 turns, the first of them played with mixed dice
C8_Witness ==
    /\ pc = "exit"
    /\ turns = 13
    /\ Len(filled) = 13
    /\ filled[1] = ValuedCombination(FullHouse, 25)
    /\ filled[13].combination = LargeStraight

\* C9: in one turn the re-roll is offered at most twice: the initial roll is
\* followed by 0, 1 or 2 re-rolls and then the choice of the category; an
\* empty selection leads to the choice at once, the third hand shown is not
\* offered for a re-roll, and a re-roll leaves the dice outside the selection
\* as they are.
C9_Positions ==
    /\ rerolls \in 0..2
    /\ pc = "prompt" => i \in {1, 2} /\ rerolls = i - 1
    /\ pc = "choose" => i \in {1, 2, 3} /\ rerolls = i - 1
    /\ kept

C9_PromptStep ==
    /\ pc = "prompt" =>
           \/ /\ pc' = "choose"
              /\ dice' = dice
              /\ valued_combinations' = valued_combinations
              /\ rerolls' = rerolls
              /\ i' = i
           \/ /\ pc' = "inner"
              /\ rerolls' = rerolls + 1
              /\ kept'
    /\ pc = "inner" /\ pc' = "choose" => i' = 3
    /\ pc = "choose" => rerolls' = rerolls

\* C9: a turn holds at most two re-rolls, and each leaves the unselected dice
\* alone.
C9_Rerolls == []C9_Positions /\ [][C9_PromptStep]_vars

\* the third hand of the first turn is up for the choice, after two re-rolls
C9_Witness ==
    /\ pc = "choose"
    /\ turns = 0
    /\ i = 3
    /\ rerolls = 2
    /\ dice = <<1, 1, 2, 2, 2>>

\* C10: every value PotentialValues gives is at most 50, so the sort key
\* 100 - value does not underflow, for every hand and for every option listed
\* in a game; and the sums of score() and total() over the ledger of a game do
\* not overflow 16 bits.
C10_NoOverflow ==
    /\ pc = "valued" =>
           \A c \in Combination :
               /\ IndexedValue(c) <= 50
               /\ SortKey(ValuedCombination(c, IndexedValue(c))) = 100 - IndexedValue(c)
    /\ \A k \in 1..Len(valued_combinations) :
           /\ valued_combinations[k].value <= 50
           /\ SortKey(valued_combinations[k]) = 100 - valued_combinations[k].value
    /\ \A k \in 1..Len(filled) : filled[k].value <= 50
    /\ LET up == ValueOver(filled, UpperCategories)
           low == ValueOver(filled, Combination \ UpperCategories)
       IN  /\ up < U16 /\ low < U16
           /\ up + low + score(filled).bonus < U16
           /\ total(score(filled)) = up + low + score(filled).bonus

\* five sixes have been valued: 50 for five of a kind, key 50
C10_Witness ==
    /\ pc = "valued"
    /\ dice = <<6, 6, 6, 6, 6>>
    /\ IndexedValue(Quintuple) = 50
    /\ IndexedValue(Chance) = 30
    /\ SortKey(ValuedCombination(Quintuple, 50)) = 50

(***************************************************************************)
(* What the hand itself shows, read off the five dice without the tally.   *)
(***************************************************************************)
Occurrences(d, f) == Cardinality({k \in DOMAIN d : d[k] = f})

FacesPresent(d) == {d[k] : k \in DOMAIN d}

RECURSIVE FaceSum(_, _)
FaceSum(d, k) == IF k > Len(d) THEN 0 ELSE d[k] + FaceSum(d, k + 1)

\* C3: for every hand of five faces the value of each category is the one the
\* rules give: Upper(f) is the number of dice showing f times f, Chance is the
\* sum of the faces, ThreeOfAKind and FourOfAKind are that sum when some face
\* occurs at least 3 resp. 4 times and 0 otherwise, FiveOfAKind is 50 or 0,
\* the straights are 30 or 0 and 40 or 0, FullHouse is 25 or 0; the hand
\* [5,5,5,2,2] gives 19, 25, 15, 4, 19, 0, 0, 0.
C3_CategoryValues ==
    pc = "valued" =>
        LET faces == FaceSum(dice, 1)
            atLeast(n) == \E f \in DieRoll : Occurrences(dice, f) >= n
        IN  /\ \A f \in DieRoll : IndexedValue(Upper(f)) = Occurrences(dice, f) * f
            /\ IndexedValue(Chance) = faces
            /\ IndexedValue(Triple) = IF atLeast(3) THEN faces ELSE 0
            /\ IndexedValue(Quadruple) = IF atLeast(4) THEN faces ELSE 0
            /\ IndexedValue(Quintuple) = IF atLeast(5) THEN 50 ELSE 0
            /\ IndexedValue(SmallStraight) \in {0, 30}
            /\ IndexedValue(LargeStraight) \in {0, 40}
            /\ IndexedValue(FullHouse) \in {0, 25}
            /\ dice = <<5, 5, 5, 2, 2>> =>
                   /\ IndexedValue(Triple) = 19
                   /\ IndexedValue(FullHouse) = 25
                   /\ IndexedValue(Upper(5)) = 15
                   /\ IndexedValue(Upper(2)) = 4
                   /\ IndexedValue(Chance) = 19
                   /\ IndexedValue(SmallStraight) = 0
                   /\ IndexedValue(LargeStraight) = 0
                   /\ IndexedValue(Quintuple) = 0

\* a five-of-a-kind hand has been valued: its sum stands under ThreeOfAKind
\* and FourOfAKind, 50 under FiveOfAKind
C3_Witness ==
    /\ pc = "valued"
    /\ dice = <<4, 4, 4, 4, 4>>
    /\ IndexedValue(Triple) = 20
    /\ IndexedValue(Quadruple) = 20
    /\ IndexedValue(Quintuple) = 50

\* C4: has_fullhouse is true exactly when some face occurs exactly twice and
\* some face occurs exactly three times in the hand, and FullHouse is worth 25
\* exactly then; [2,2,3,3,3] is a full house, [3,3,3,3,3] and [1,1,2,3,4] are
\* not.
C4_FullHouse ==
    pc \in {"tallied", "valued"} =>
        LET pairAndTriple ==
                /\ \E f \in DieRoll : Occurrences(dice, f) = 2
                /\ \E f \in DieRoll : Occurrences(dice, f) = 3
        IN  /\ has_fullhouse(counts) <=> pairAndTriple
            /\ pc = "valued" => IndexedValue(FullHouse) = (IF pairAndTriple THEN 25 ELSE 0)
            /\ dice = <<2, 2, 3, 3, 3>> => has_fullhouse(counts)
            /\ dice = <<3, 3, 3, 3, 3>> => ~has_fullhouse(counts)
            /\ dice = <<1, 1, 2, 3, 4>> => ~has_fullhouse(counts)

\* five identical faces have been valued and FullHouse is worth nothing
C4_Witness ==
    /\ pc = "valued"
    /\ dice = <<3, 3, 3, 3, 3>>
    /\ counts.threes = 5
    /\ IndexedValue(FullHouse) = 0

\* C5: has_small_straight is true exactly when the faces present contain
\* {1,2,3,4}, {2,3,4,5} or {3,4,5,6}, has_large_straight exactly when they
\* contain {1,2,3,4,5} or {2,3,4,5,6}; duplicates and the order of the dice do
\* not matter, and a large straight is also a small straight.
C5_Straights ==
    pc \in {"tallied", "valued"} =>
        LET present == FacesPresent(dice)
            small == \/ {1, 2, 3, 4} \subseteq present
                     \/ {2, 3, 4, 5} \subseteq present
                     \/ {3, 4, 5, 6} \subseteq present
            large == \/ {1, 2, 3, 4, 5} \subseteq present
                     \/ {2, 3, 4, 5, 6} \subseteq present
        IN  /\ has_small_straight(counts) <=> small
            /\ has_large_straight(counts) <=> large
            /\ has_large_straight(counts) => has_small_straight(counts)
            /\ dice = <<1, 2, 3, 4, 6>> =>
                   has_small_straight(counts) /\ ~has_large_straight(counts)
            /\ dice = <<1, 1, 2, 3, 5>> =>
                   ~has_small_straight(counts) /\ ~has_large_straight(counts)

\* an unsorted hand with a duplicate has been valued as a small straight
C5_Witness ==
    /\ pc = "valued"
    /\ dice = <<4, 2, 3, 2, 1>>
    /\ IndexedValue(SmallStraight) = 30
    /\ IndexedValue(LargeStraight) = 0

====
